---- MODULE Spec2Model ----
(***************************************************************************)
(* Tool-rental server (backend/server.js): the JSON document store with    *)
(* its temp-file-and-rename save, the catalog / rental handlers, the       *)
(* return pipeline with its two scorers, and the audit-log resolution.     *)
(*                                                                         *)
(* Strings that the code takes apart (tool names, upload file names) are   *)
(* sequences of one-character strings.  Scores are JavaScript numbers,     *)
(* added, multiplied and rounded as IEEE 754 doubles.                      *)
(***************************************************************************)
EXTENDS Integers, Sequences, FiniteSets, TLC

VARIABLES
    disk,      \* the canonical file db.json
    tmp,       \* the sibling file db.json.tmp
    boot,      \* where the process is in its start-up (checkDBFile)
    req,       \* per connection: the request being served and its handler's locals
    nextUuid,  \* how many uuidv4() values have been drawn
    writes,    \* how many calls of writeDB have been made
    faults,    \* how many crashes and I/O failures have happened
    fresh      \* history: per tool id, the requests answered since its creation

vars == <<disk, tmp, boot, req, nextUuid, writes, faults, fresh>>

------------------------------------------------------------------------------
(* Bounds of the model *)

MaxWrites == 5
MaxFaults == 1

\* the two clients: the renter's pages and the administrator's page
Conns == {"user", "admin"}

------------------------------------------------------------------------------
(* Text helpers *)

\* Characters are ASCII.
Capitals ==
    <<"A", "B", "C", "D", "E", "F", "G", "H", "I", "J", "K", "L", "M",
      "N", "O", "P", "Q", "R", "S", "T", "U", "V", "W", "X", "Y", "Z">>

Smalls ==
    <<"a", "b", "c", "d", "e", "f", "g", "h", "i", "j", "k", "l", "m",
      "n", "o", "p", "q", "r", "s", "t", "u", "v", "w", "x", "y", "z">>

\* toLowerCase on one character
ToLower(c) ==
    IF \E i \in DOMAIN Capitals : Capitals[i] = c
    THEN Smalls[CHOOSE i \in DOMAIN Capitals : Capitals[i] = c]
    ELSE c

LowerAlnum ==
    {"a", "b", "c", "d", "e", "f", "g", "h", "i", "j", "k", "l", "m", "n", "o",
     "p", "q", "r", "s", "t", "u", "v", "w", "x", "y", "z",
     "0", "1", "2", "3", "4", "5", "6", "7", "8", "9"}

ToLowerCase(s) == [i \in 1..Len(s) |-> ToLower(s[i])]

\* name.toLowerCase().replace(/[^a-z0-9]/g, '-')
NewToolId(name) ==
    [i \in 1..Len(name) |->
        IF ToLower(name[i]) \in LowerAlnum THEN ToLower(name[i]) ELSE "-"]

\* String.prototype.includes
Includes(s, k) ==
    \E i \in 0..(Len(s) - Len(k)) : \A j \in 1..Len(k) : s[i + j] = k[j]

\* the greatest element of a set of naturals, 0 for the empty set
Last(S) == IF S = {} THEN 0 ELSE CHOOSE i \in S : \A j \in S : j <= i

\* path.extname (posix).  The base name is what lies between the last slash
\* that has something other than slashes after it and the trailing slashes;
\* the extension runs from the base name's last dot to its end, and is
\* empty when the base name has no dot, when its last dot is its first
\* character, and when the base name is "..".
ExtName(s) ==
    LET end == Last({i \in 1..Len(s) : s[i] # "/"})
        startPart == Last({i \in 1..end : s[i] = "/"}) + 1
        startDot == Last({i \in startPart..end : s[i] = "."})
    IN IF end = 0 \/ startDot = 0 \/ startDot = startPart
       THEN <<>>
       ELSE IF s[startPart] = "." /\ startDot = end /\ startDot = startPart + 1
       THEN <<>>
       ELSE SubSeq(s, startDot, end)

Min(a, b) == IF a < b THEN a ELSE b

Max(a, b) == IF a > b THEN a ELSE b

------------------------------------------------------------------------------
(* Naturals of any size, as sequences of limbs (digits to the base 2^7),   *)
(* least significant first, without leading zeros; zero is <<>>            *)

Limb == 128

\* digit i of a, 0 outside of a
Digit(a, i) == IF 1 <= i /\ i <= Len(a) THEN a[i] ELSE 0

BigTrim(a) == SubSeq(a, 1, Last({i \in 1..Len(a) : a[i] # 0}))

\* w holds digits that may exceed the base (each below 2^21): every digit
\* spread over three places, which leaves digits below 3 * 2^7
Spread(w) ==
    [i \in 1..(Len(w) + 3) |->
        (Digit(w, i) % Limb) + ((Digit(w, i - 1) \div Limb) % Limb)
            + (Digit(w, i - 2) \div (Limb * Limb))]

\* the overflow of such digits handed on once, which leaves digits up to
\* 2^7 + 1
Settle(x) == [i \in 1..Len(x) |-> (x[i] % Limb) + (Digit(x, i - 1) \div Limb)]

\* what is left is a carry of one, which a place makes when it is 2^7 or
\* more and hands on when it is 2^7 - 1
Ripple(y) ==
    BigTrim([i \in 1..Len(y) |->
                (y[i] + (IF \E j \in 1..(i - 1) :
                              /\ y[j] >= Limb
                              /\ \A k \in (j + 1)..(i - 1) : y[k] = Limb - 1
                         THEN 1 ELSE 0)) % Limb])

\* the number that the digits of w stand for
BigNorm(w) == Ripple(Settle(Spread(w)))

\* n is a natural below 2^31
BigFromInt(n) == BigTrim([i \in 1..5 |-> (n \div Limb^(i - 1)) % Limb])

\* a is below 2^31
BigToInt(a) ==
    Digit(a, 1) + Limb * Digit(a, 2) + Limb^2 * Digit(a, 3)
        + Limb^3 * Digit(a, 4) + Limb^4 * Digit(a, 5)

BigAdd(a, b) ==
    BigNorm([i \in 1..Max(Len(a), Len(b)) |-> Digit(a, i) + Digit(b, i)])

\* a - b, for a >= b.  A place borrows from the next when its digit of a
\* is below its digit of b, and hands a borrow on when the two are equal.
BigSub(a, b) ==
    BigTrim([i \in 1..Len(a) |->
                (a[i] - Digit(b, i) + Limb
                   - (IF \E j \in 1..(i - 1) :
                           /\ a[j] < Digit(b, j)
                           /\ \A k \in (j + 1)..(i - 1) : a[k] = Digit(b, k)
                      THEN 1 ELSE 0)) % Limb])

\* a * k, for k up to 2^14
BigMulSmall(a, k) == BigNorm([i \in 1..Len(a) |-> a[i] * k])

\* sum of the numbers of sequence t
RECURSIVE SumSeq(_)
SumSeq(t) == IF t = <<>> THEN 0 ELSE Head(t) + SumSeq(Tail(t))

\* a * b, for a and b of at most 64 limbs each
BigMul(a, b) ==
    BigNorm([k \in 1..(Len(a) + Len(b) - 1) |->
                SumSeq([i \in 1..Len(a) |-> a[i] * Digit(b, k + 1 - i)])])

\* -1, 0, 1 as a is below, equal to, above b
BigCmp(a, b) ==
    IF Len(a) # Len(b) THEN (IF Len(a) < Len(b) THEN 0 - 1 ELSE 1)
    ELSE LET d == Last({i \in 1..Len(a) : a[i] # b[i]})
         IN IF d = 0 THEN 0 ELSE IF a[d] < b[d] THEN 0 - 1 ELSE 1

\* the number of binary digits of a
BitLen(a) ==
    IF a = <<>> THEN 0
    ELSE 7 * (Len(a) - 1) + (CHOOSE k \in 1..7 : 2^(k - 1) <= a[Len(a)] /\ a[Len(a)] < 2^k)

\* 2^k
Pow2(k) == [i \in 1..(k \div 7 + 1) |-> IF i = k \div 7 + 1 THEN 2^(k % 7) ELSE 0]

\* a * 2^k
ShiftLeft(a, k) ==
    IF a = <<>> THEN <<>>
    ELSE [i \in 1..(k \div 7) |-> 0] \o BigMulSmall(a, 2^(k % 7))

\* the quotient of a by 2^k
Quot2(a, k) ==
    BigTrim([i \in 1..(Len(a) - k \div 7) |->
                (Digit(a, k \div 7 + i) \div 2^(k % 7))
                    + (Digit(a, k \div 7 + i + 1) % 2^(k % 7)) * 2^(7 - (k % 7))])

\* the remainder of a by 2^k
Rem2(a, k) ==
    BigTrim([i \in 1..(k \div 7 + 1) |->
                IF i <= k \div 7 THEN Digit(a, i) ELSE Digit(a, i) % 2^(k % 7)])

------------------------------------------------------------------------------
(* JavaScript numbers that are not negative: IEEE 754 doubles, the value   *)
(* of [m, e] being m * 2^e with m below 2^53, or equal to it.  The code's  *)
(* numbers stay far from the subnormal range and from overflow.            *)

\* quot is what is kept of a mantissa, half says whether what was cut off
\* is below (-1), equal to (0) or above (1) half a unit of quot: to the
\* nearest, ties to the even mantissa
RoundCut(quot, half, e) ==
    [m |-> IF half > 0 \/ (half = 0 /\ quot[1] % 2 = 1)
           THEN BigAdd(quot, <<1>>) ELSE quot,
     e |-> e]

\* the double nearest to m * 2^e
Round53(m, e) ==
    IF BitLen(m) <= 53 THEN [m |-> m, e |-> IF m = <<>> THEN 0 ELSE e]
    ELSE RoundCut(Quot2(m, BitLen(m) - 53),
                  BigCmp(Rem2(m, BitLen(m) - 53), Pow2(BitLen(m) - 54)),
                  e + BitLen(m) - 53)

FromInt(n) == [m |-> BigFromInt(n), e |-> 0]

FAdd(x, y) ==
    IF x.m = <<>> THEN y
    ELSE IF y.m = <<>> THEN x
    ELSE Round53(BigAdd(ShiftLeft(x.m, x.e - Min(x.e, y.e)),
                        ShiftLeft(y.m, y.e - Min(x.e, y.e))),
                 Min(x.e, y.e))

\* x - y, for x >= y
FSub(x, y) ==
    IF y.m = <<>> THEN x
    ELSE Round53(BigSub(ShiftLeft(x.m, x.e - Min(x.e, y.e)),
                        ShiftLeft(y.m, y.e - Min(x.e, y.e))),
                 Min(x.e, y.e))

FMul(x, y) ==
    IF x.m = <<>> \/ y.m = <<>> THEN FromInt(0)
    ELSE Round53(BigMul(x.m, y.m), x.e + y.e)

\* how many places to the base 2^7 behind the point the quotient a / b is
\* taken to, for it to have 56 binary digits or more
Places(a, b) ==
    (Max(0, 56 + BitLen(BigFromInt(b)) - BitLen(BigFromInt(a))) + 6) \div 7

\* long division to the base 2^7: rem[i] is the remainder that is left
\* after i places behind the point; a last binary digit says whether a
\* remainder is left after the last place, and the whole is rounded
LongDiv(a, b, places) ==
    LET rem[i \in 0..places] == IF i = 0 THEN a % b ELSE (rem[i - 1] * Limb) % b
    IN Round53(BigAdd(BigMulSmall(
                          BigTrim([j \in 1..places |-> (rem[places - j] * Limb) \div b]
                                      \o BigFromInt(a \div b)),
                          2),
                      IF rem[places] = 0 THEN <<>> ELSE <<1>>),
               0 - 7 * places - 1)

\* a / b for naturals a and b, b from 1 to 2^24: the division of two
\* numbers that are whole, and the value of the decimal literal a/b
FDiv(a, b) == IF a = 0 THEN FromInt(0) ELSE LongDiv(a, b, Places(a, b))

FCmp(x, y) ==
    BigCmp(ShiftLeft(x.m, x.e - Min(x.e, y.e)), ShiftLeft(y.m, y.e - Min(x.e, y.e)))

FMin(x, y) == IF FCmp(y, x) < 0 THEN y ELSE x

\* Math.round, for a result below 2^31: to the nearest whole number, ties
\* upwards
FRound(x) ==
    IF x.e >= 0 THEN BigToInt(ShiftLeft(x.m, x.e))
    ELSE BigToInt(Quot2(x.m, 0 - x.e))
         + (IF BigCmp(Rem2(x.m, 0 - x.e), Pow2(0 - x.e - 1)) >= 0 THEN 1 ELSE 0)

\* the value Math.random() returned, given in thousandths
Random(u) == FDiv(u, 1000)

------------------------------------------------------------------------------
(* The two scorers.  u1, u2, u are the Math.random() draws, in thousandths *)

\* aiScore += term, when the condition holds
Plus(aiScore, condition, term) == IF condition THEN FAdd(aiScore, term) ELSE aiScore

AiKeywords ==
    {<<"a", "i">>, <<"g", "e", "n", "e", "r", "a", "t", "e", "d">>,
     <<"s", "t", "a", "b", "l", "e">>, <<"d", "a", "l", "l">>,
     <<"m", "i", "d", "j", "o", "u", "r", "n", "e", "y">>}

AiScore(fileName, fileSize, u1, u2) ==
    LET lowerFileName == ToLowerCase(fileName)
        foundKeywords == {k \in AiKeywords : Includes(lowerFileName, k)}
        ext == ToLowerCase(ExtName(fileName))
        bySize == Plus(Plus(FromInt(0), fileSize < 50000, FDiv(3, 10)),
                       fileSize > 5000000, FDiv(1, 10))
        byName == Plus(bySize, foundKeywords # {}, FDiv(4, 10))
        byExt == Plus(Plus(byName, ext = <<".", "p", "n", "g">>, FDiv(2, 10)),
                      ext = <<".", "w", "e", "b", "p">>, FDiv(15, 100))
    IN FAdd(FAdd(byExt, FMul(Random(u1), FDiv(4, 10))),
            FMul(Random(u2), FDiv(2, 10)))

\* a gate that lets a synthetic image with confidence 80 through
AllowUploadOffByOne(isAIGenerated, confidence) ==
    ~isAIGenerated \/ confidence <= 80

AllowUpload(isAIGenerated, confidence) == ~isAIGenerated \/ confidence < 80

\* the object detectAIImage returns
Detection(isAIGenerated, confidence) ==
    [is_ai_generated |-> isAIGenerated,
     confidence |-> confidence,
     allow_upload |-> AllowUpload(isAIGenerated, confidence)]

\* isAIGenerated and confidence, from the score
Verdict(aiScore) ==
    Detection(FCmp(aiScore, FDiv(7, 10)) > 0,
              Min(98, FRound(FMul(aiScore, FromInt(100)))))

detectAIImage(fileName, fileSize, u1, u2) ==
    Verdict(AiScore(fileName, fileSize, u1, u2))

\* the object compareImages returns
Similarity(finalSimilarity) ==
    [similar |-> FCmp(finalSimilarity, FDiv(6, 10)) > 0,
     score |-> FRound(FMul(finalSimilarity, FromInt(100)))]

\* ref is the stored before-image file, size the uploaded file's size
compareImages(ref, size, u) ==
    IF ~ref.exists
    THEN [similar |-> FALSE, score |-> 0]
    ELSE LET sizeDiff == IF ref.size > size THEN ref.size - size ELSE size - ref.size
             maxSize == Max(ref.size, size)
             sizeSimilarity ==
                 IF maxSize > 0 THEN FSub(FromInt(1), FDiv(sizeDiff, maxSize))
                 ELSE FDiv(3, 10)
             baseSimilarity == FAdd(FDiv(3, 10), FMul(Random(u), FDiv(5, 10)))
         IN Similarity(FMin(FDiv(95, 100),
                            FAdd(FMul(sizeSimilarity, FDiv(2, 10)),
                                 FMul(baseSimilarity, FDiv(8, 10)))))

\* a similarity gate that lets every image through
MismatchNever(comparisonResult) == FALSE

\* the similarity gate of the return pipeline
Mismatch(comparisonResult) ==
    ~comparisonResult.similar \/ comparisonResult.score < 60

------------------------------------------------------------------------------
(* The uploads the clients send, and what the scorers make of them *)

NoFile == [name |-> <<>>, size |-> 0]

NoRef == [exists |-> FALSE, size |-> 0]

PngFile == [name |-> <<"x", ".", "P", "N", "G">>, size |-> 10000]

KeywordFile == [name |-> <<"A", "I", ".", "p", "n", "g">>, size |-> 10000]

RefFile == [exists |-> TRUE, size |-> 10000]

\* an upload, the random draws its run of the pipeline makes, and the
\* before-image file that run finds on disk
Uploads ==
    {<<PngFile, <<0, 0, 0>>, RefFile>>,
     <<PngFile, <<0, 0, 400>>, RefFile>>,
     <<PngFile, <<500, 20, 400>>, NoRef>>,
     <<PngFile, <<750, 0, 400>>, RefFile>>,
     <<KeywordFile, <<0, 0, 400>>, RefFile>>}

\* the scorers are functions of the file and the draws: their results for
\* the uploads above, worked out once
Detections ==
    [u \in Uploads |-> detectAIImage(u[1].name, u[1].size, u[2][1], u[2][2])]

Similarities ==
    [u \in Uploads |-> compareImages(u[3], u[1].size, u[2][3])]

\* detectAIImage(req.file.path)
AiResult(body) ==
    IF <<body.file, body.rand, body.ref>> \in Uploads
    THEN Detections[<<body.file, body.rand, body.ref>>]
    ELSE detectAIImage(body.file.name, body.file.size, body.rand[1], body.rand[2])

\* compareImages(beforeImagePath, req.file.path)
ComparisonResult(body) ==
    IF <<body.file, body.rand, body.ref>> \in Uploads
    THEN Similarities[<<body.file, body.rand, body.ref>>]
    ELSE compareImages(body.ref, body.file.size, body.rand[3])

------------------------------------------------------------------------------
(* The document and the files that hold it *)

\* A value of the document or of a request body that may be missing is a
\* sequence: <<>> when it is undefined, <<s>> when it is the string s.
Undefined == <<>>

Str(s) == <<s>>

InitialAdmin ==
    [email |-> Str("admin@rentalhub.com"), password |-> Str("admin123")]

\* admin: {}, which has neither an email nor a password
NoAdmin == [email |-> Undefined, password |-> Undefined]

InitialDB ==
    [admin |-> InitialAdmin, users |-> <<>>, tools |-> <<>>,
     rentals |-> <<>>, logs |-> <<>>]

\* what readDB substitutes for a missing or malformed file
FallbackDB == [InitialDB EXCEPT !.admin = NoAdmin]

AbsentFile == [kind |-> "absent", doc |-> FallbackDB]

\* created or truncated, its content not yet written out in full
PartialFile == [kind |-> "partial", doc |-> FallbackDB]

FullFile(d) == [kind |-> "doc", doc |-> d]

readDB(f) == IF f.kind = "doc" THEN f.doc ELSE FallbackDB

FirstIndex(S) == IF S = {} THEN 0 ELSE CHOOSE i \in S : \A j \in S : i <= j

ToolIndex(db, id) == FirstIndex({i \in DOMAIN db.tools : db.tools[i].id = id})

\* db.tools.findIndex(t => t.id === id) for the id of a request body, which
\* is undefined when the body leaves it out: no tool's id is undefined
FindToolIndex(db, id) == IF id = Undefined THEN 0 ELSE ToolIndex(db, id[1])

RentalIndex(db, rentalId) ==
    FirstIndex({i \in DOMAIN db.rentals : db.rentals[i].rentalId = rentalId})

LogIndex(db, logId) == FirstIndex({i \in DOMAIN db.logs : db.logs[i].id = logId})

UserIndex(db, email) ==
    FirstIndex({i \in DOMAIN db.users : db.users[i].email = email})

MaxOf(S) == CHOOSE m \in S : \A x \in S : x <= m

\* what a handler hands on: the document in memory, whether writeDB is
\* called on it, whether the uploaded file is unlinked, and the response
Result(db, write, unlink, success, status) ==
    [db |-> db, write |-> write, unlink |-> unlink,
     success |-> success, status |-> status]

------------------------------------------------------------------------------
(* The route handlers, each as a function of the document it loaded and    *)
(* the request body                                                        *)

\* POST /api/login.  The credentials are compared with ===, under which
\* undefined equals undefined; email.split throws for an email that is
\* undefined, before the new user is pushed, and Express answers 500.
PostLogin(db, body) ==
    IF body.role = "admin"
    THEN Result(db, FALSE, FALSE,
                db.admin.email = body.email /\ db.admin.password = body.password,
                IF db.admin.email = body.email /\ db.admin.password = body.password
                THEN 200 ELSE 401)
    ELSE LET i == UserIndex(db, body.email)
             newId == IF Len(db.users) > 0
                      THEN MaxOf({db.users[k].id : k \in DOMAIN db.users}) + 1
                      ELSE 1
             user == [id |-> newId, email |-> body.email, password |-> body.password]
         IN IF i = 0
            THEN IF body.email = Undefined
                 THEN Result(db, FALSE, FALSE, FALSE, 500)
                 ELSE Result([db EXCEPT !.users = Append(@, user)],
                             TRUE, FALSE, TRUE, 200)
            ELSE IF db.users[i].password = body.password
                 THEN Result(db, FALSE, FALSE, TRUE, 200)
                 ELSE Result(db, FALSE, FALSE, FALSE, 401)

\* a quantity check that lets the quantity go one below the rented count
BelowRentedByTwo(newQuantity, tool) == newQuantity < tool.rented - 1

\* the quantity check of the update path of POST /api/admin/tools
BelowRented(newQuantity, tool) == newQuantity < tool.rented

\* a create path that does not look for the derived id in the catalog
CollidesNever(db, newToolId) == FALSE

\* the collision check of the create path of POST /api/admin/tools
Collides(db, newToolId) == \E i \in DOMAIN db.tools : db.tools[i].id = newToolId

\* POST /api/admin/tools
PostAdminTools(db, body) ==
    LET toolIndex == FindToolIndex(db, body.id)
    IN IF toolIndex # 0
       THEN LET tool == db.tools[toolIndex]
                named == [tool EXCEPT !.name = body.name, !.price = body.price]
                newQuantity == body.quantity
            IN IF BelowRented(newQuantity, tool)
               THEN Result([db EXCEPT !.tools[toolIndex] = named],
                           FALSE, FALSE, FALSE, 400)
               ELSE Result([db EXCEPT !.tools[toolIndex] =
                               [named EXCEPT !.quantity = newQuantity,
                                             !.available = newQuantity - tool.rented,
                                             !.beforeImage = body.beforeImage]],
                           TRUE, FALSE, TRUE, 200)
       ELSE LET newToolId == NewToolId(body.name)
                newTool == [id |-> newToolId, name |-> body.name,
                            beforeImage |-> body.beforeImage, price |-> body.price,
                            quantity |-> body.quantity, rented |-> 0,
                            available |-> body.quantity]
            IN IF Collides(db, newToolId)
               THEN Result(db, FALSE, FALSE, FALSE, 400)
               ELSE Result([db EXCEPT !.tools = Append(@, newTool)],
                           TRUE, FALSE, TRUE, 200)

\* a delete that takes the tool's rentals out with it
DeleteAdminToolCascade(db, toolId) ==
    LET kept == SelectSeq(db.tools, LAMBDA t : t.id # toolId)
        open == SelectSeq(db.rentals, LAMBDA r : r.toolId # toolId)
    IN IF Len(kept) < Len(db.tools)
       THEN Result([db EXCEPT !.tools = kept, !.rentals = open],
                   TRUE, FALSE, TRUE, 200)
       ELSE Result([db EXCEPT !.tools = kept], FALSE, FALSE, FALSE, 404)

\* DELETE /api/admin/tools/:toolId
DeleteAdminTool(db, toolId) ==
    LET kept == SelectSeq(db.tools, LAMBDA t : t.id # toolId)
    IN IF Len(kept) < Len(db.tools)
       THEN Result([db EXCEPT !.tools = kept], TRUE, FALSE, TRUE, 200)
       ELSE Result([db EXCEPT !.tools = kept], FALSE, FALSE, FALSE, 404)

\* an availability check that lets a tool with none left be rented
UnavailableBelowZero(tool) == tool.available < 0

\* an availability check that keeps the last copy of a tool back
UnavailableAtOne(tool) == tool.available <= 1

\* the availability check of POST /api/rent
Unavailable(tool) == tool.available <= 0

\* POST /api/rent; uuid is the value uuidv4() returns
PostRent(db, toolId, uuid) ==
    LET i == ToolIndex(db, toolId)
    IN IF i = 0 \/ Unavailable(db.tools[i])
       THEN Result(db, FALSE, FALSE, FALSE, 400)
       ELSE LET newRental == [rentalId |-> uuid, toolId |-> toolId,
                              status |-> "RENTED"]
            IN Result([db EXCEPT !.tools[i].rented = @ + 1,
                                 !.tools[i].available = @ - 1,
                                 !.rentals = Append(@, newRental)],
                      TRUE, FALSE, TRUE, 200)

\* a release that decrements rented without the floor at 0
ReleaseNoFloor(rented) == rented - 1

\* the rented count of a tool after one of its rentals is returned
Release(rented) == Max(0, rented - 1)

\* a closing that opens a rental again when it was closed before
CloseToggled(rental) ==
    [rental EXCEPT !.status = IF @ = "RETURNED" THEN "RENTED" ELSE "RETURNED"]

\* db.rentals[rentalIndex].status = 'RETURNED'
Close(rental) == [rental EXCEPT !.status = "RETURNED"]

\* steps 3 to 5 of POST /api/return/check: close the rental, release the
\* tool, append the log
CommitReturn(db, i, rentalIndex, body, aiResult, comparisonResult) ==
    LET newLogId == IF Len(db.logs) > 0
                    THEN MaxOf({db.logs[k].id : k \in DOMAIN db.logs}) + 1
                    ELSE 1
        logEntry == [id |-> newLogId, toolId |-> body.toolId,
                     rentalId |-> body.rentalId,
                     aiDetected |-> aiResult.is_ai_generated,
                     aiConfidence |-> aiResult.confidence,
                     imageSimilarity |-> comparisonResult.score,
                     action |-> "AUTO-RESOLVED"]
    IN [db EXCEPT !.rentals[rentalIndex] = Close(@),
                  !.tools[i].rented = Release(@),
                  !.tools[i].available = @ + 1,
                  !.logs = Append(@, logEntry)]

\* POST /api/return/check, for a request that carries a file.  body.file is
\* the upload (name, size), body.rand the three random draws, body.ref the
\* before-image file as it is found on disk
\* the gates of POST /api/return/check and what follows them, given the
\* tool's index, whether a before image was compared, and the two results
ReturnGates(db, body, i, compared, aiResult, comparisonResult) ==
    LET rentalIndex == RentalIndex(db, body.rentalId)
    IN IF ~aiResult.allow_upload
       THEN Result(db, FALSE, TRUE, FALSE, 400)
       ELSE IF compared /\ Mismatch(comparisonResult)
       THEN Result(db, FALSE, TRUE, FALSE, 400)
       ELSE IF rentalIndex = 0
       THEN Result(db, FALSE, TRUE, FALSE, 404)
       ELSE Result(CommitReturn(db, i, rentalIndex, body, aiResult,
                                comparisonResult),
                   TRUE, FALSE, TRUE, 200)

PostReturnCheck(db, body) ==
    LET i == ToolIndex(db, body.toolId)
        compared == db.tools[i].beforeImage # "" /\ body.ref.exists
    IN IF i = 0
       THEN Result(db, FALSE, FALSE, FALSE, 400)
       ELSE ReturnGates(db, body, i, compared, AiResult(body),
                        IF compared
                        THEN ComparisonResult(body)
                        ELSE [similar |-> FALSE, score |-> 0])

\* a remediation whose Remove takes a copy away and leaves available alone
RemediateNoClamp(tool, action) ==
    IF action = "Remove" THEN [tool EXCEPT !.quantity = Max(0, @ - 1)]
    ELSE IF action \in {"Repaired", "MakeAvailable"}
    THEN [tool EXCEPT !.available = @ + 1]
    ELSE tool

\* the inventory remediation of POST /api/admin/logs/action
Remediate(tool, action) ==
    IF action = "Repaired" THEN [tool EXCEPT !.available = @ + 1]
    ELSE IF action = "Remove"
    THEN [tool EXCEPT !.quantity = Max(0, @ - 1),
                      !.available = Min(@, Max(0, tool.quantity - 1))]
    ELSE IF action = "MakeAvailable" THEN [tool EXCEPT !.available = @ + 1]
    ELSE tool

\* a marking that reopens a log that was resolved before
MarkToggled(log) ==
    [log EXCEPT !.action = IF @ = "RESOLVED" THEN "AUTO-RESOLVED" ELSE "RESOLVED"]

\* log.action = 'RESOLVED'
MarkResolved(log) == [log EXCEPT !.action = "RESOLVED"]

\* POST /api/admin/logs/action
PostLogsAction(db, body) ==
    LET l == LogIndex(db, body.logId)
    IN IF l = 0
       THEN Result(db, FALSE, FALSE, FALSE, 400)
       ELSE LET i == ToolIndex(db, db.logs[l].toolId)
                resolved == [db EXCEPT !.logs[l] = MarkResolved(@)]
            IN IF i = 0
               THEN Result(resolved, TRUE, FALSE, FALSE, 404)
               ELSE Result([resolved EXCEPT
                               !.tools[i] = Remediate(@, body.action)],
                           TRUE, FALSE, TRUE, 200)

------------------------------------------------------------------------------
(* Request bodies the clients send *)

NoBody ==
    [id |-> Undefined, toolId |-> <<>>, name |-> <<>>, price |-> 0,
     quantity |-> 0, beforeImage |-> "", rentalId |-> 0, file |-> NoFile,
     rand |-> <<0, 0, 0>>, ref |-> NoRef, logId |-> 0, action |-> "",
     role |-> "",
     email |-> Undefined, password |-> Undefined]

ToolIds == {<<"d", "-">>, <<"s">>}

ToolBody(id, name, price, quantity, beforeImage) ==
    [NoBody EXCEPT !.id = id, !.name = name, !.price = price,
                   !.quantity = quantity, !.beforeImage = beforeImage]

ToolBodies ==
    {ToolBody(Undefined, <<"D", "!">>, 10, 1, "before.png"),
     ToolBody(Undefined, <<"d", "-">>, 20, 2, ""),
     ToolBody(Undefined, <<"S">>, 10, 1, ""),
     ToolBody(Str(<<"d", "-">>), <<"d", "-">>, 20, 0, ""),
     ToolBody(Str(<<"d", "-">>), <<"D", "!">>, 10, 2, "before.png")}

\* the client names a rental it was given, or one that was never issued
ReturnBodies ==
    {[NoBody EXCEPT !.toolId = t, !.rentalId = k, !.file = u[1], !.rand = u[2],
                    !.ref = u[3]] :
        t \in ToolIds, k \in 0..nextUuid, u \in Uploads}
    \cup {[NoBody EXCEPT !.toolId = t, !.rentalId = nextUuid] : t \in ToolIds}

LogActions == {"Repaired", "Remove", "MakeAvailable"}

\* the administrator names a log of the list, or one that is not in it
LogBodies(db) ==
    {[NoBody EXCEPT !.logId = l, !.action = a] :
        l \in {0} \cup {db.logs[k].id : k \in DOMAIN db.logs}, a \in LogActions}

LoginBody(role, email, password) ==
    [NoBody EXCEPT !.role = role, !.email = email, !.password = password]

\* the administrator with the password and with a guess, a renter, and a
\* client that sends a role and nothing else
LoginBodies ==
    {LoginBody("admin", Str("admin@rentalhub.com"), Str("admin123")),
     LoginBody("admin", Str("admin@rentalhub.com"), Str("guess")),
     LoginBody("user", Str("u@x"), Str("pw")),
     LoginBody("admin", Undefined, Undefined),
     LoginBody("user", Undefined, Undefined)}

------------------------------------------------------------------------------
(* The server process *)

NoResponse == [success |-> FALSE, status |-> 0]

\* History of a tool id: the quantity its tool was created with and how many
\* rent requests for it have been answered success since, as long as no
\* return, update, delete or resolve on it has been answered since; NotFresh
\* when there is no such tool or one of those has touched it.
NotFresh == [quantity |-> 0 - 1, rents |-> 0]

\* a connection with no request on it
IdleReq ==
    [pc |-> "idle", op |-> "none", body |-> NoBody, file |-> FALSE,
     seen |-> AbsentFile, db |-> FallbackDB, res |-> NoResponse, saved |-> FALSE]

\* where a handler is inside writeDB: at its call of writeFileSync, after
\* writeFileSync has opened the temp file, after it has written it
InWriteDB == {"writeDB", "tmpOpen", "tmpWritten"}

\* where a handler is between its readDB and its return to the event loop:
\* inside writeDB, or at its res.json
InHandler == InWriteDB \cup {"done"}

\* handlers that await their file operations, so that the event loop may
\* start another handler in between
LoopFreeAsync == TRUE

\* readFileSync, writeFileSync and renameSync are synchronous: a handler
\* runs from its readDB to its response before the event loop starts another
LoopFree == \A c \in Conns : req[c].pc \notin InHandler

\* The handler of connection c has run on the document it read: up to its
\* response when it makes no call of writeDB, and else into writeDB, up to
\* its call of writeFileSync.  The event loop takes a request that waits
\* before one that comes in now.
Handled(c, op, body, result) ==
    /\ boot = "up"
    /\ \/ req[c].pc = "queued"
       \/ req[c].pc = "idle" /\ \A d \in Conns : req[d].pc # "queued"
    /\ LoopFree
    /\ result.write => writes < MaxWrites
    /\ req' = [req EXCEPT ![c] =
                  [pc |-> IF result.write THEN "writeDB" ELSE "done",
                   op |-> op, body |-> body,
                   file |-> body.file # NoFile /\ ~result.unlink,
                   seen |-> disk, db |-> result.db,
                   res |-> [success |-> result.success, status |-> result.status],
                   saved |-> FALSE]]
    /\ writes' = IF result.write THEN writes + 1 ELSE writes
    /\ nextUuid' = IF op = "rent" /\ result.write THEN nextUuid + 1 ELSE nextUuid
    /\ UNCHANGED <<disk, tmp, boot, faults, fresh>>

Init ==
    /\ disk = AbsentFile
    /\ tmp = "absent"
    /\ boot = "check"
    /\ req = [c \in Conns |-> IdleReq]
    /\ nextUuid = 0
    /\ writes = 0
    /\ faults = 0
    /\ fresh = [t \in ToolIds |-> NotFresh]

\* checkDBFile: the file is there, or writeFileSync has created it and not
\* yet written its content
checkDBFile ==
    /\ boot = "check"
    /\ IF disk.kind = "absent"
       THEN disk' = PartialFile /\ boot' = "init"
       ELSE disk' = disk /\ boot' = "up"
    /\ UNCHANGED <<tmp, req, nextUuid, writes, faults, fresh>>

\* checkDBFile: writeFileSync has written the initial document
checkDBFileWritten ==
    /\ boot = "init"
    /\ disk' = FullFile(InitialDB)
    /\ boot' = "up"
    /\ UNCHANGED <<tmp, req, nextUuid, writes, faults, fresh>>

\* checkDBFile: writeFileSync throws, at its open of the file, which stays
\* absent, or at a write, which leaves it cut short; checkDBFile returns
\* false, which the module does not look at, and the server starts
checkDBFileFailed ==
    /\ \/ boot = "check" /\ disk.kind = "absent"
       \/ boot = "init"
    /\ faults < MaxFaults
    /\ faults' = faults + 1
    /\ boot' = "up"
    /\ UNCHANGED <<disk, tmp, req, nextUuid, writes, fresh>>

\* a request comes in while another one's handler is between its load and
\* its save, and waits for the event loop
Arrive(c) ==
    /\ boot = "up"
    /\ req[c].pc = "idle"
    /\ \E d \in Conns : req[d].pc \in InWriteDB
    /\ req' = [req EXCEPT ![c].pc = "queued"]
    /\ UNCHANGED <<disk, tmp, boot, nextUuid, writes, faults, fresh>>

Login ==
    /\ boot = "up"
    /\ \E body \in LoginBodies :
           LET result == PostLogin(readDB(disk), body)
           IN Handled("user", "login", body, result)

Rent ==
    /\ boot = "up"
    /\ \E t \in ToolIds :
           LET result == PostRent(readDB(disk), t, nextUuid + 1)
           IN Handled("user", "rent", [NoBody EXCEPT !.toolId = t], result)

\* POST /api/return/check with multer's upload.single before it; the
\* pipeline runs once, when the event loop starts the handler
ReturnCheck ==
    /\ boot = "up"
    /\ LoopFree
    /\ \E body \in ReturnBodies :
           \E result \in {IF body.file = NoFile
                          THEN Result(readDB(disk), FALSE, FALSE, FALSE, 400)
                          ELSE PostReturnCheck(readDB(disk), body)} :
               Handled("user", "return", body, result)

AdminTools ==
    /\ boot = "up"
    /\ \E body \in ToolBodies :
           LET result == PostAdminTools(readDB(disk), body)
           IN Handled("admin", "tools", body, result)

DeleteTool ==
    /\ boot = "up"
    /\ \E t \in ToolIds :
           LET result == DeleteAdminTool(readDB(disk), t)
           IN Handled("admin", "delete", [NoBody EXCEPT !.toolId = t], result)

LogsAction ==
    /\ boot = "up"
    /\ \E body \in LogBodies(readDB(disk)) :
           LET result == PostLogsAction(readDB(disk), body)
           IN Handled("admin", "resolve", body, result)

\* writeDB: writeFileSync has created or truncated the temp file
writeDBOpened(c) ==
    /\ req[c].pc = "writeDB"
    /\ tmp' = "partial"
    /\ req' = [req EXCEPT ![c].pc = "tmpOpen"]
    /\ UNCHANGED <<disk, boot, nextUuid, writes, faults, fresh>>

\* writeDB: writeFileSync has written the whole document to the temp file
writeDBWritten(c) ==
    /\ req[c].pc = "tmpOpen"
    /\ tmp' = "written"
    /\ req' = [req EXCEPT ![c].pc = "tmpWritten"]
    /\ UNCHANGED <<disk, boot, nextUuid, writes, faults, fresh>>

\* writeDB: renameSync has put the temp file, which holds the handler's
\* document, in the place of the canonical file; writeDB returns true and
\* the handler sends its response
writeDBRenamed(c) ==
    /\ req[c].pc = "tmpWritten"
    /\ disk' = FullFile(req[c].db)
    /\ tmp' = "absent"
    /\ req' = [req EXCEPT ![c].pc = "done", ![c].saved = TRUE]
    /\ UNCHANGED <<boot, nextUuid, writes, faults, fresh>>

\* writeDB: writeFileSync throws, at its open of the temp file, which it
\* leaves as it was, or at a write, which leaves it cut short, or
\* renameSync throws, which leaves it written; writeDB returns false and
\* the handler, which does not look at that, sends its response
writeDBFailed(c) ==
    /\ req[c].pc \in InWriteDB
    /\ faults < MaxFaults
    /\ faults' = faults + 1
    /\ req' = [req EXCEPT ![c].pc = "done"]
    /\ UNCHANGED <<disk, tmp, boot, nextUuid, writes, fresh>>

\* the history after the response on connection c
Answered(c) ==
    LET r == req[c]
        old == readDB(r.seen)
        log == old.logs[LogIndex(old, r.body.logId)]
    IN IF r.op = "tools" /\ r.res.success
       THEN IF FindToolIndex(old, r.body.id) # 0
            THEN [fresh EXCEPT ![r.body.id[1]] = NotFresh]
            ELSE [fresh EXCEPT ![NewToolId(r.body.name)] =
                     [quantity |-> r.body.quantity, rents |-> 0]]
       ELSE IF r.op = "rent" /\ r.res.success /\ fresh[r.body.toolId] # NotFresh
       THEN [fresh EXCEPT ![r.body.toolId].rents = @ + 1]
       ELSE IF r.op \in {"return", "delete"} /\ r.res.success
       THEN [fresh EXCEPT ![r.body.toolId] = NotFresh]
       ELSE IF r.op = "resolve" /\ r.res.success
       THEN [fresh EXCEPT ![log.toolId] = NotFresh]
       ELSE fresh

\* the handler has returned to the event loop and the connection is free
Respond(c) ==
    /\ req[c].pc = "done"
    /\ req' = [req EXCEPT ![c] = IdleReq]
    /\ fresh' = Answered(c)
    /\ UNCHANGED <<disk, tmp, boot, nextUuid, writes, faults>>

\* the process is killed and started again: memory is lost, files stay
Crash ==
    /\ faults < MaxFaults
    /\ faults' = faults + 1
    /\ boot' = "check"
    /\ req' = [c \in Conns |-> IdleReq]
    /\ fresh' = [t \in ToolIds |-> NotFresh]
    /\ UNCHANGED <<disk, tmp, nextUuid, writes>>

\* the server on a file system that works, in a process that stays up
Next ==
    \/ checkDBFile
    \/ checkDBFileWritten
    \/ Login
    \/ Rent
    \/ ReturnCheck
    \/ AdminTools
    \/ DeleteTool
    \/ LogsAction
    \/ \E c \in Conns :
        \/ Arrive(c)
        \/ writeDBOpened(c)
        \/ writeDBWritten(c)
        \/ writeDBRenamed(c)
        \/ Respond(c)

Spec == Init /\ [][Next]_vars

\* the same server with writes that may fail and a process that may be
\* killed and started again
NextFaults ==
    \/ Next
    \/ Crash
    \/ checkDBFileFailed
    \/ \E c \in Conns : writeDBFailed(c)

SpecFaults == Init /\ [][NextFaults]_vars

------------------------------------------------------------------------------
(* What the claims speak of *)

\* the document the handler of connection c loaded
Loaded(c) == readDB(req[c].seen)

\* the handler of connection c, serving an op request, is at its response
Responding(c, op) == req[c].pc = "done" /\ req[c].op = op

HasTool(db, id) == ToolIndex(db, id) # 0

ToolOf(db, id) == db.tools[ToolIndex(db, id)]

HasRental(db, rentalId) == RentalIndex(db, rentalId) # 0

RentalOf(db, rentalId) == db.rentals[RentalIndex(db, rentalId)]

LogsOf(db, rentalId) == {k \in DOMAIN db.logs : db.logs[k].rentalId = rentalId}

\* the persisted document is the one the handler of c loaded
Untouched(c) == disk = req[c].seen /\ ~req[c].saved

\* the scorer outputs of the return request on connection c
AiOf(c) == AiResult(req[c].body)

SimilarityOf(c) == ComparisonResult(req[c].body)

\* the return request on connection c is one the authenticity gate, the
\* similarity gate or the rental lookup has to stop
AuthenticityStops(c) == AiOf(c).is_ai_generated /\ AiOf(c).confidence >= 80

SimilarityStops(c) ==
    /\ HasTool(Loaded(c), req[c].body.toolId)
    /\ ToolOf(Loaded(c), req[c].body.toolId).beforeImage # ""
    /\ req[c].body.ref.exists
    /\ (~SimilarityOf(c).similar \/ SimilarityOf(c).score < 60)

LookupStops(c) == ~HasRental(Loaded(c), req[c].body.rentalId)

------------------------------------------------------------------------------
(* The claims *)

\* C1: in every persisted document every tool has
\* available = quantity - rented and 0 <= rented <= quantity.
C1_ToolCounters ==
    disk.kind = "doc" =>
        \A i \in DOMAIN disk.doc.tools :
            LET t == disk.doc.tools[i]
            IN /\ t.available = t.quantity - t.rented
               /\ 0 <= t.rented
               /\ t.rented <= t.quantity

\* C2: a return for a rental that is already RETURNED does not pass the
\* state commit again: it leaves the persisted document, and with it the
\* tool's available and rented, as it was.
C2_ReturnedNotCommittedAgain ==
    \A c \in Conns :
        (/\ Responding(c, "return")
         /\ HasRental(Loaded(c), req[c].body.rentalId)
         /\ RentalOf(Loaded(c), req[c].body.rentalId).status = "RETURNED")
        => Untouched(c)

\* C3: a rent request for a tool with available 0, or for a tool id that is
\* not in the catalog, fails and leaves the persisted document as it was.
C3_RentUnavailableFails ==
    \A c \in Conns :
        (/\ Responding(c, "rent")
         /\ \/ ~HasTool(Loaded(c), req[c].body.toolId)
            \/ ToolOf(Loaded(c), req[c].body.toolId).available = 0)
        => ~req[c].res.success /\ Untouched(c)

\* a rent request for a tool of the catalog with none available has been
\* answered
C3_Witness ==
    /\ Responding("user", "rent")
    /\ HasTool(Loaded("user"), req["user"].body.toolId)
    /\ ToolOf(Loaded("user"), req["user"].body.toolId).available = 0
    /\ ToolOf(Loaded("user"), req["user"].body.toolId).quantity > 0

\* C4 as stated: a successful rent takes 1 from available and adds 1 to
\* rented, and a successful return adds 1 to available and takes exactly 1
\* from rented.
C4_ExactlyOne ==
    \A c \in Conns :
        (req[c].pc = "done" /\ req[c].res.success)
        => LET old == ToolOf(Loaded(c), req[c].body.toolId)
               new == ToolOf(req[c].db, req[c].body.toolId)
           IN /\ req[c].op = "rent" =>
                    new.available = old.available - 1 /\ new.rented = old.rented + 1
              /\ req[c].op = "return" =>
                    new.available = old.available + 1 /\ new.rented = old.rented - 1

\* C4 as amended: a successful rent takes 1 from available and adds 1 to
\* rented; a successful return adds 1 to available and takes 1 from rented
\* unless rented is 0 already, and then leaves it 0.  What is saved is that
\* document.
C4_ReturnFloored ==
    \A c \in Conns :
        (req[c].pc = "done" /\ req[c].res.success)
        => LET old == ToolOf(Loaded(c), req[c].body.toolId)
               new == ToolOf(req[c].db, req[c].body.toolId)
           IN /\ req[c].op = "rent" =>
                    /\ new.available = old.available - 1
                    /\ new.rented = old.rented + 1
                    /\ new.quantity = old.quantity
              /\ req[c].op = "return" =>
                    /\ new.available = old.available + 1
                    /\ new.rented = (IF old.rented > 0 THEN old.rented - 1 ELSE 0)
                    /\ new.quantity = old.quantity
              /\ req[c].op \in {"rent", "return"} /\ req[c].saved =>
                    disk = FullFile(req[c].db)

\* a return of a rental that is still RENTED, for the tool id the rental
\* names, has succeeded on a tool whose rented count was 0 already: the tool
\* was deleted while rented and created again under the same id
C4_Witness ==
    /\ Responding("user", "return")
    /\ req["user"].res.success
    /\ req["user"].saved
    /\ RentalOf(Loaded("user"), req["user"].body.rentalId).status = "RENTED"
    /\ RentalOf(Loaded("user"), req["user"].body.rentalId).toolId
           = req["user"].body.toolId
    /\ ToolOf(Loaded("user"), req["user"].body.toolId).rented = 0
    /\ ToolOf(req["user"].db, req["user"].body.toolId).rented = 0

\* C5: a return request that one of the gates stops (a synthetic image with
\* confidence 80 or more, an image that is not similar or scores under 60
\* against the before image, a rental id that is not in the document) fails
\* and leaves the persisted document as it was: rental, tool and logs.
C5_GateAbortChangesNothing ==
    \A c \in Conns :
        (/\ Responding(c, "return")
         /\ req[c].body.file # NoFile
         /\ AuthenticityStops(c) \/ SimilarityStops(c) \/ LookupStops(c))
        => ~req[c].res.success /\ Untouched(c)

\* each of the two gates has stopped a return of a rented tool that the
\* pipeline would otherwise have committed
C5_WitnessOpenRental(c) ==
    /\ Responding(c, "return")
    /\ HasTool(Loaded(c), req[c].body.toolId)
    /\ HasRental(Loaded(c), req[c].body.rentalId)
    /\ RentalOf(Loaded(c), req[c].body.rentalId).status = "RENTED"
    /\ RentalOf(Loaded(c), req[c].body.rentalId).toolId = req[c].body.toolId

C5_Witness ==
    /\ C5_WitnessOpenRental("user")
    /\ AuthenticityStops("user")
    /\ AiOf("user").confidence = 80
    /\ ~SimilarityStops("user")

\* C6: after a return request that carried a file and did not succeed, or
\* whose save failed, the uploaded file is gone.
C6_NoOrphanedUpload ==
    \A c \in Conns :
        (/\ Responding(c, "return")
         /\ req[c].body.file # NoFile
         /\ ~req[c].res.success \/ ~req[c].saved)
        => ~req[c].file

\* C7: a return is reported successful only when its save succeeded.
C7_SuccessOnlyIfSaved ==
    \A c \in Conns :
        (Responding(c, "return") /\ req[c].res.success) => req[c].saved

\* C8: load-mutate-save cycles are serialized.  While a handler is between
\* its load and its return to the event loop no other handler is; until it
\* saves, the persisted document is the one it loaded; and once it has
\* saved, the persisted document is the loaded one with its own change.
C8_Serialized ==
    \A c \in Conns :
        /\ req[c].pc \in InHandler =>
               \A d \in Conns \ {c} : req[d].pc \notin InHandler
        /\ req[c].pc \in InWriteDB => disk = req[c].seen
        /\ req[c].pc = "done" =>
               disk = (IF req[c].saved THEN FullFile(req[c].db) ELSE req[c].seen)

\* the administrator's request came in during the renter's cycle, waited,
\* and the renter's save is on disk
C8_Witness ==
    /\ req["user"].pc = "done"
    /\ req["user"].saved
    /\ req["user"].db # Loaded("user")
    /\ req["admin"].pc = "queued"

\* C9: the canonical file is absent or a complete document at every point
\* at which the process may be killed.
C9_CanonicalComplete == disk.kind \in {"absent", "doc"}

\* C10: a successful return marks its rental RETURNED and appends one log
\* with action AUTO-RESOLVED and that rental id; a persisted document holds
\* at most one log for a rental id.
C10_OneLogPerRental ==
    /\ \A c \in Conns :
           (Responding(c, "return") /\ req[c].res.success)
           => /\ RentalOf(req[c].db, req[c].body.rentalId).status = "RETURNED"
              /\ Len(req[c].db.logs) = Len(Loaded(c).logs) + 1
              /\ req[c].db.logs[Len(req[c].db.logs)].action = "AUTO-RESOLVED"
              /\ req[c].db.logs[Len(req[c].db.logs)].rentalId = req[c].body.rentalId
    /\ disk.kind = "doc" =>
           \A k \in 1..nextUuid : Cardinality(LogsOf(disk.doc, k)) <= 1

\* C11: a tool is created with rented 0 and available equal to its quantity
\* q; while no return, update, delete or resolve on it has been answered,
\* a rent request for it succeeds when fewer than q rent requests for it have
\* succeeded since its creation, and fails as unavailable (400) otherwise.
C11_FirstRentsSucceed ==
    \A c \in Conns :
        /\ (/\ Responding(c, "tools")
            /\ req[c].res.success
            /\ FindToolIndex(Loaded(c), req[c].body.id) = 0)
           => LET new == ToolOf(req[c].db, NewToolId(req[c].body.name))
              IN /\ new.quantity = req[c].body.quantity
                 /\ new.rented = 0
                 /\ new.available = req[c].body.quantity
        /\ (Responding(c, "rent") /\ fresh[req[c].body.toolId] # NotFresh)
           => LET since == fresh[req[c].body.toolId]
              IN IF since.rents < since.quantity
                 THEN req[c].res.success /\ req[c].saved
                 ELSE ~req[c].res.success /\ req[c].res.status = 400
                      /\ Untouched(c)

\* a tool was created with quantity 2, two rent requests for it have
\* succeeded and the third one has been refused
C11_Witness ==
    /\ Responding("user", "rent")
    /\ fresh[req["user"].body.toolId] = [quantity |-> 2, rents |-> 2]
    /\ ~req["user"].res.success

\* C12: an update of a tool to a quantity below its rented count fails and
\* leaves the persisted document, and so the tool's name, price, quantity,
\* rented and available, as it was; a successful update saves the tool with
\* the new quantity, available = new quantity - rented, and its id and
\* rented as they were.
C12_UpdateKeepsRented ==
    \A c \in Conns :
        (Responding(c, "tools") /\ FindToolIndex(Loaded(c), req[c].body.id) # 0)
        => LET old == Loaded(c).tools[FindToolIndex(Loaded(c), req[c].body.id)]
               new == req[c].db.tools[FindToolIndex(Loaded(c), req[c].body.id)]
           IN /\ req[c].body.quantity < old.rented
                    => ~req[c].res.success /\ Untouched(c)
              /\ req[c].res.success
                    => /\ new.quantity = req[c].body.quantity
                       /\ new.available = req[c].body.quantity - old.rented
                       /\ new.id = old.id
                       /\ new.rented = old.rented
                       /\ Len(req[c].db.tools) = Len(Loaded(c).tools)
                       /\ req[c].saved /\ disk = FullFile(req[c].db)

\* an update to quantity 0 of a tool with a copy rented has been refused;
\* the handler had put the new name or price into its copy of the document
C12_Witness ==
    /\ Responding("admin", "tools")
    /\ FindToolIndex(Loaded("admin"), req["admin"].body.id) # 0
    /\ req["admin"].body.quantity
         < Loaded("admin").tools[FindToolIndex(Loaded("admin"),
                                               req["admin"].body.id)].rented
    /\ req["admin"].db # Loaded("admin")
    /\ ~req["admin"].res.success

\* the tools of document db have ids that differ from one another
UniqueIds(db) ==
    \A i, j \in DOMAIN db.tools : db.tools[i].id = db.tools[j].id => i = j

\* C13: no two tools of a document, persisted or in a handler's hands, share
\* an id; a create request whose derived id is the id of a tool of the
\* catalog fails and leaves the document as it was; and a handler leaves
\* every tool it keeps at its place with its id (a delete takes out the
\* tools with the id it names, and only them).
C13_ToolIdsUniqueStable ==
    /\ UniqueIds(readDB(disk))
    /\ \A c \in Conns :
        /\ UniqueIds(req[c].db)
        /\ (/\ Responding(c, "tools")
            /\ FindToolIndex(Loaded(c), req[c].body.id) = 0
            /\ HasTool(Loaded(c), NewToolId(req[c].body.name)))
           => ~req[c].res.success /\ req[c].db = Loaded(c) /\ Untouched(c)
        /\ (req[c].pc \in InHandler /\ req[c].op # "delete")
           => /\ Len(req[c].db.tools) >= Len(Loaded(c).tools)
              /\ \A i \in DOMAIN Loaded(c).tools :
                     req[c].db.tools[i].id = Loaded(c).tools[i].id
        /\ (req[c].pc \in InHandler /\ req[c].op = "delete")
           => req[c].db.tools =
                  SelectSeq(Loaded(c).tools, LAMBDA t : t.id # req[c].body.toolId)

\* a create request under another name that derives the id of a tool of
\* the catalog has been refused
C13_Witness ==
    /\ Responding("admin", "tools")
    /\ FindToolIndex(Loaded("admin"), req["admin"].body.id) = 0
    /\ HasTool(Loaded("admin"), NewToolId(req["admin"].body.name))
    /\ ToolOf(Loaded("admin"), NewToolId(req["admin"].body.name)).name
           # req["admin"].body.name
    /\ Len(Loaded("admin").tools) = 2
    /\ ~req["admin"].res.success

\* the log a resolve request on connection c names, and that log's tool, in
\* the document the handler loaded
LogOf(c) == Loaded(c).logs[LogIndex(Loaded(c), req[c].body.logId)]

ResolvesTool(c) ==
    /\ Responding(c, "resolve")
    /\ LogIndex(Loaded(c), req[c].body.logId) # 0
    /\ HasTool(Loaded(c), LogOf(c).toolId)

\* C14: resolving a log with Remove takes 1 from the quantity of the log's
\* tool, not below 0, sets available to the smaller of available and the
\* new quantity, leaves rented as it was, sets the log's action to RESOLVED,
\* and saves that.
C14_RemoveClamps ==
    \A c \in Conns :
        (ResolvesTool(c) /\ req[c].body.action = "Remove")
        => LET old == ToolOf(Loaded(c), LogOf(c).toolId)
               new == ToolOf(req[c].db, LogOf(c).toolId)
               quantity == IF old.quantity > 0 THEN old.quantity - 1 ELSE 0
           IN /\ new.quantity = quantity
              /\ new.available =
                     (IF old.available < quantity THEN old.available ELSE quantity)
              /\ new.rented = old.rented
              /\ req[c].db.logs[LogIndex(Loaded(c), req[c].body.logId)].action
                     = "RESOLVED"
              /\ req[c].res.success
              /\ req[c].saved /\ disk = FullFile(req[c].db)

\* Remove on a tool with quantity 1 and a copy available: quantity 0 and
\* available clamped to 0
C14_Witness ==
    /\ ResolvesTool("admin")
    /\ req["admin"].body.action = "Remove"
    /\ ToolOf(Loaded("admin"), LogOf("admin").toolId).quantity = 1
    /\ ToolOf(Loaded("admin"), LogOf("admin").toolId).available >= 1
    /\ ToolOf(req["admin"].db, LogOf("admin").toolId).available = 0
    /\ req["admin"].saved

\* C15: a resolve request on a log of the document leaves that log RESOLVED
\* and saves it, whether the log's tool is in the catalog or not (and when
\* it is not, the request is answered 404 and no tool changes); and every
\* log that is RESOLVED in the document a handler loads is there, RESOLVED,
\* in the document the handler saves.
C15_ResolvedStays ==
    \A c \in Conns :
        /\ (Responding(c, "resolve") /\ LogIndex(Loaded(c), req[c].body.logId) # 0)
           => /\ req[c].db.logs[LogIndex(Loaded(c), req[c].body.logId)].action
                     = "RESOLVED"
              /\ req[c].saved /\ disk = FullFile(req[c].db)
              /\ ~HasTool(Loaded(c), LogOf(c).toolId)
                     => /\ ~req[c].res.success /\ req[c].res.status = 404
                        /\ req[c].db.tools = Loaded(c).tools
        /\ req[c].pc \in InHandler
           => \A k \in DOMAIN Loaded(c).logs :
                  Loaded(c).logs[k].action = "RESOLVED"
                  => /\ k \in DOMAIN req[c].db.logs
                     /\ req[c].db.logs[k].id = Loaded(c).logs[k].id
                     /\ req[c].db.logs[k].action = "RESOLVED"

\* a log whose tool has been deleted has been resolved: answered 404, and
\* the log is RESOLVED on disk
C15_Witness ==
    /\ Responding("admin", "resolve")
    /\ LogIndex(Loaded("admin"), req["admin"].body.logId) # 0
    /\ LogOf("admin").action = "AUTO-RESOLVED"
    /\ ~HasTool(Loaded("admin"), LogOf("admin").toolId)
    /\ req["admin"].res.status = 404
    /\ disk.doc.logs[LogIndex(Loaded("admin"), req["admin"].body.logId)].action
           = "RESOLVED"

\* C16: a delete of a tool id of the catalog succeeds and saves the document
\* without that tool, every other tool at its place in the order, and with
\* the rentals, logs, users and admin as they were, whatever the tool's
\* rented count; a delete of an id that is not in the catalog is answered
\* 404 and leaves the persisted document as it was.
C16_DeleteNoCascade ==
    \A c \in Conns :
        Responding(c, "delete")
        => LET old == Loaded(c)
               new == req[c].db
               at == ToolIndex(old, req[c].body.toolId)
           IN IF at # 0
              THEN /\ req[c].res.success
                   /\ Len(new.tools) = Len(old.tools) - 1
                   /\ \A i \in DOMAIN new.tools :
                          new.tools[i] = old.tools[IF i < at THEN i ELSE i + 1]
                   /\ new.rentals = old.rentals
                   /\ new.logs = old.logs
                   /\ new.users = old.users
                   /\ new.admin = old.admin
                   /\ req[c].saved /\ disk = FullFile(new)
              ELSE /\ ~req[c].res.success /\ req[c].res.status = 404
                   /\ Untouched(c)

\* the first of two tools has been deleted while one of its copies was
\* rented, and its rental is still in the document on disk
C16_Witness ==
    /\ Responding("admin", "delete")
    /\ req["admin"].res.success
    /\ Len(Loaded("admin").tools) = 2
    /\ ToolIndex(Loaded("admin"), req["admin"].body.toolId) = 1
    /\ ToolOf(Loaded("admin"), req["admin"].body.toolId).rented > 0
    /\ \E k \in DOMAIN disk.doc.rentals :
           /\ disk.doc.rentals[k].toolId = req["admin"].body.toolId
           /\ disk.doc.rentals[k].status = "RENTED"

\* C17: a handler adds a rental to the document only when it is a rent that
\* succeeds, and then one rental, RENTED, under a new id, at the end; every
\* rental of the document a handler loads is in the document it saves, at
\* its place, with its id and tool id; and one that was RETURNED is RETURNED.
C17_RentalsKept ==
    \A c \in Conns :
        req[c].pc \in InHandler
        => LET old == Loaded(c).rentals
               new == req[c].db.rentals
           IN /\ IF req[c].op = "rent" /\ req[c].res.success
                 THEN /\ Len(new) = Len(old) + 1
                      /\ new[Len(new)].status = "RENTED"
                      /\ new[Len(new)].toolId = req[c].body.toolId
                      /\ \A k \in DOMAIN old :
                             old[k].rentalId # new[Len(new)].rentalId
                 ELSE Len(new) = Len(old)
              /\ \A k \in DOMAIN old :
                     /\ new[k].rentalId = old[k].rentalId
                     /\ new[k].toolId = old[k].toolId
                     /\ old[k].status = "RETURNED" => new[k].status = "RETURNED"
              /\ req[c].saved => disk = FullFile(req[c].db)

\* with two rentals in the document, a return request for one that was
\* RETURNED already has succeeded, and both rentals are on disk, that one
\* RETURNED
C17_Witness ==
    /\ Responding("user", "return")
    /\ req["user"].res.success
    /\ req["user"].saved
    /\ Len(Loaded("user").rentals) = 2
    /\ RentalOf(Loaded("user"), req["user"].body.rentalId).status = "RETURNED"
    /\ Len(disk.doc.rentals) = 2
    /\ RentalOf(disk.doc, req["user"].body.rentalId).status = "RETURNED"

\* C18: in a successful return, a tool that the handler changes is the tool
\* the closed rental names.
C18_ReturnReleasesRentedTool ==
    \A c \in Conns :
        (Responding(c, "return") /\ req[c].res.success /\ req[c].saved)
        => \A i \in DOMAIN Loaded(c).tools :
               req[c].db.tools[i] # Loaded(c).tools[i]
               => Loaded(c).tools[i].id
                      = RentalOf(Loaded(c), req[c].body.rentalId).toolId

\* C19: a resolve request on a log that is RESOLVED already leaves every
\* tool's quantity and available as they were.
C19_RemediationOnce ==
    \A c \in Conns :
        (/\ Responding(c, "resolve")
         /\ LogIndex(Loaded(c), req[c].body.logId) # 0
         /\ LogOf(c).action = "RESOLVED"
         /\ req[c].saved)
        => \A i \in DOMAIN Loaded(c).tools :
               /\ req[c].db.tools[i].quantity = Loaded(c).tools[i].quantity
               /\ req[c].db.tools[i].available = Loaded(c).tools[i].available

\* the logs of document db record scorer outputs that pass both gates
GatesPassed(db) ==
    \A k \in DOMAIN db.logs :
        /\ ~(db.logs[k].aiDetected /\ db.logs[k].aiConfidence >= 80)
        /\ db.logs[k].imageSimilarity = 0 \/ db.logs[k].imageSimilarity >= 60

\* C20: no log of a document, persisted or in a handler's hands, has
\* aiDetected true together with aiConfidence 80 or more, and every log's
\* imageSimilarity is 0 or at least 60.
C20_LogsPassedGates ==
    /\ GatesPassed(readDB(disk))
    /\ \A c \in Conns : GatesPassed(req[c].db)

\* on disk there is a log of an image found synthetic with confidence under
\* 80 whose similarity check was skipped, and a log of an image that scored
\* exactly 60
C20_Witness ==
    /\ disk.kind = "doc"
    /\ \E k \in DOMAIN disk.doc.logs :
           /\ disk.doc.logs[k].aiDetected
           /\ disk.doc.logs[k].aiConfidence = 70
           /\ disk.doc.logs[k].imageSimilarity = 0
    /\ \E k \in DOMAIN disk.doc.logs :
           /\ ~disk.doc.logs[k].aiDetected
           /\ disk.doc.logs[k].imageSimilarity = 60

====
